---------------------------- MODULE Spec2Model ----------------------------
(***************************************************************************)
(* Daily-weather retrieval and date-completeness pipeline of the           *)
(* Open-Meteo Streamlit application (src/openmeteo.py, and its earlier     *)
(* single-site version src/Prophet_1_0.py).                                *)
(*                                                                         *)
(* Representation of the Python values:                                    *)
(*   - a calendar date (datetime.date) is its proleptic day number         *)
(*     counted from EpochYear-01-01 = 1; pandas' NaT is the number NaT;    *)
(*   - a date text "YYYY-MM-DD" is the record [y, m, d] of its three       *)
(*     numeric fields (a text that is no date has fields no calendar       *)
(*     accepts);                                                           *)
(*   - a latitude / longitude is an integer number of millidegrees;        *)
(*   - a distance is an integer number of millimetres;                     *)
(*   - measured values and the provider's echoed scalars are opaque        *)
(*     strings, NoneVal being None / JSON null;                            *)
(*   - a DataFrame is the sequence of its rows.                            *)
(***************************************************************************)
EXTENDS Integers, Sequences, FiniteSets, TLC

VARIABLES
    pc,                 \* position of the script run
    script,             \* which source file runs: "openmeteo" or "Prophet_1_0"
    start_date_input,   \* sidebar: first day (inclusive)
    end_date_input,     \* sidebar: last day (inclusive)
    custom_lat,         \* sidebar: latitude of the custom point
    custom_lon,         \* sidebar: longitude of the custom point
    run_query,          \* sidebar: the button was pressed in this run
    sites,              \* the catalog handed to find_closest_site
    closest_site,       \* result of find_closest_site: the site
    closest_dist_km,    \* result of find_closest_site: the distance
    http_log,           \* the GET requests handed to the HTTP client, in order
    response,           \* the HTTP response received by fetch_daily_weather
    daily_df,           \* first value returned by fetch_daily_weather
    meta_info,          \* second value returned by fetch_daily_weather
    exc,                \* the uncaught exception that ended the run, or NoExc
    ui,                 \* the Streamlit elements emitted so far, in order
    missing_days,       \* first value returned by check_missing_days_daily
    ok_all_days         \* second value returned by check_missing_days_daily

vars == <<pc, script, start_date_input, end_date_input, custom_lat, custom_lon,
          run_query, sites, closest_site, closest_dist_km, http_log, response,
          daily_df, meta_info, exc, ui, missing_days, ok_all_days>>

-----------------------------------------------------------------------------
(* Bounds of the explored inputs.                                          *)

\* Longest per-day array of a response explored by SpecFetch.
MaxLen == 2
\* Longest per-day array of a response explored by the whole script run.
MaxLenRun == 1
\* Most rows of a record set handed to check_missing_days_daily alone.
MaxRows == 3
\* Longest catalog handed to find_closest_site alone.
MaxCatalog == 3
\* Number of consecutive calendar days the sidebar can choose from.
NumDays == 3

-----------------------------------------------------------------------------
(* Calendar: datetime.date, strftime("%Y-%m-%d"), pandas.to_datetime.      *)

\* The year the explored days lie in; day 1 is its first of January.
EpochYear == 2024

\* pandas.NaT, the undefined date that errors="coerce" produces.
NaT == 0

IsLeap(y) == (y % 4 = 0 /\ y % 100 # 0) \/ y % 400 = 0

DaysInMonth(y, m) ==
    IF m \in {4, 6, 9, 11} THEN 30
    ELSE IF m = 2 THEN (IF IsLeap(y) THEN 29 ELSE 28)
    ELSE 31

DaysInYear(y) == IF IsLeap(y) THEN 366 ELSE 365

RECURSIVE DaysBeforeMonth(_, _)
DaysBeforeMonth(y, m) ==
    IF m <= 1 THEN 0 ELSE DaysBeforeMonth(y, m - 1) + DaysInMonth(y, m - 1)

RECURSIVE DaysBeforeYear(_)
DaysBeforeYear(y) ==
    IF y <= EpochYear THEN 0 ELSE DaysBeforeYear(y - 1) + DaysInYear(y - 1)

\* The day number of the calendar date y-m-d.
ToOrdinal(y, m, d) == DaysBeforeYear(y) + DaysBeforeMonth(y, m) + d

\* A text of the shape YYYY-MM-DD names a calendar date (the modelled calendar
\* starts with EpochYear).
IsCalendarDate(s) ==
    /\ s.y >= EpochYear
    /\ s.m \in 1..12
    /\ s.d \in 1..DaysInMonth(s.y, s.m)

\* pd.to_datetime(text, errors="coerce").date(): the date, or NaT when the
\* text does not parse.
to_datetime(s) == IF IsCalendarDate(s) THEN ToOrdinal(s.y, s.m, s.d) ELSE NaT

RECURSIVE YearOf(_, _)
YearOf(n, y) == IF n <= DaysInYear(y) THEN y ELSE YearOf(n - DaysInYear(y), y + 1)

RECURSIVE MonthOf(_, _, _)
MonthOf(n, y, m) ==
    IF n <= DaysInMonth(y, m) THEN m ELSE MonthOf(n - DaysInMonth(y, m), y, m + 1)

\* date.strftime("%Y-%m-%d"): the text of a calendar date.
strftime(date) ==
    LET y == YearOf(date, EpochYear)
        n == date - DaysBeforeYear(y)
        m == MonthOf(n, y, 1)
    IN  [y |-> y, m |-> m, d |-> n - DaysBeforeMonth(y, m)]

\* pd.date_range(start, end, freq="D").date: every day from start to end,
\* both included, in chronological order; empty when start > end.
RECURSIVE date_range(_, _)
date_range(start, end) ==
    IF start > end THEN <<>> ELSE <<start>> \o date_range(start + 1, end)

-----------------------------------------------------------------------------
(* Completeness checker.                                                   *)

\* set(df["date"].astype("object"))
got_days(df) == {df[i].date : i \in 1..Len(df)}

\* [d for d in expected_days if d not in got_days]
RECURSIVE missing_from(_, _)
missing_from(expected, got) ==
    IF expected = <<>> THEN <<>>
    ELSE (IF Head(expected) \notin got THEN <<Head(expected)>> ELSE <<>>)
         \o missing_from(Tail(expected), got)

\* The day sequence with its last day left out.
ExclusiveRange(start, end) == date_range(start, end - 1)

\* expected_days of check_missing_days_daily.
expected_days(start, end) == date_range(start, end)

\* The report for an empty frame with the flag of a complete one.
EmptyReportComplete(expected) == [missing |-> expected, ok |-> TRUE]

\* The pair returned when df.empty.
EmptyReport(expected) == [missing |-> expected, ok |-> FALSE]

check_missing_days_daily(df, start_date_obj, end_date_obj) ==
    LET expected == expected_days(start_date_obj, end_date_obj)
    IN  IF Len(df) = 0
        THEN EmptyReport(expected)
        ELSE LET missing == missing_from(expected, got_days(df))
             IN  [missing |-> missing, ok |-> (Len(missing) = 0)]

-----------------------------------------------------------------------------
(* Geo-distance resolver.                                                  *)

KNOWN_SITES == <<
    [name |-> "Saint-Brieuc", lat |-> 48514, lon |-> -2765],
    [name |-> "Brest",        lat |-> 48390, lon |-> -4486],
    [name |-> "Rennes",       lat |-> 48117, lon |-> -1677],
    [name |-> "Quimper",      lat |-> 47996, lon |-> -4098],
    [name |-> "Vannes",       lat |-> 47658, lon |-> -2760] >>

\* The points the sidebar's two number inputs are set to: the default (the
\* coordinate of a known site) and points that are no known site.
Points == { <<48514, -2765>>, <<48117, -1677>>, <<48000, -3000>>, <<47800, -3500>> }

\* Sites that catalogs are drawn from when find_closest_site is explored alone:
\* the known ones, one sharing the coordinate of Rennes, and two at the same
\* distance, east and west, of the point (48.000, -3.000).
CandidateSites ==
    { KNOWN_SITES[i] : i \in 1..Len(KNOWN_SITES) } \cup
    { [name |-> "Cesson", lat |-> 48117, lon |-> -1677],
      [name |-> "Est",    lat |-> 48000, lon |-> -2000],
      [name |-> "Ouest",  lat |-> 48000, lon |-> -4000] }

\* R * c of haversine_km, rounded to the millimetre, for every point of Points
\* (lat1, lon1) and every coordinate of CandidateSites (lat2, lon2); the rounding
\* keeps the order and the equalities of the floating-point results.
HaversineTable ==
    [ p \in Points |->
        CASE p = <<48514, -2765>> ->
                (<<47658, -2760>> :> 95183582  @@ <<47996, -4098>> :> 114265667 @@
                 <<48000, -4000>> :> 107822217 @@ <<48000, -2000>> :> 80461063  @@
                 <<48117, -1677>> :> 91768899  @@ <<48390, -4486>> :> 127667245 @@
                 <<48514, -2765>> :> 0)
          [] p = <<48000, -3000>> ->
                (<<47658, -2760>> :> 42037597  @@ <<47996, -4098>> :> 81699201  @@
                 <<48000, -4000>> :> 74403407  @@ <<48000, -2000>> :> 74403407  @@
                 <<48117, -1677>> :> 99180406  @@ <<48390, -4486>> :> 118372643 @@
                 <<48514, -2765>> :> 59743366)
          [] p = <<47800, -3500>> ->
                (<<47658, -2760>> :> 57555460  @@ <<47996, -4098>> :> 49623321  @@
                 <<48000, -4000>> :> 43404073  @@ <<48000, -2000>> :> 114010055 @@
                 <<48117, -1677>> :> 140245379 @@ <<48390, -4486>> :> 98315435  @@
                 <<48514, -2765>> :> 96309553)
          [] p = <<48117, -1677>> ->
                (<<47658, -2760>> :> 95530250  @@ <<47996, -4098>> :> 180429334 @@
                 <<48000, -4000>> :> 173127068 @@ <<48000, -2000>> :> 27303903  @@
                 <<48117, -1677>> :> 0         @@ <<48390, -4486>> :> 210162973 @@
                 <<48514, -2765>> :> 91768899) ]

haversine_km(lat1, lon1, lat2, lon2) == HaversineTable[<<lat1, lon1>>][<<lat2, lon2>>]

\* best_site = None, best_dist = None
NoneDist == -1
NoneSite == [name |-> "None", lat |-> 0, lon |-> 0]

\* A comparison that also replaces the best site on an equal distance.
CloserOrEqual(d, best_dist) == d <= best_dist

\* d < best_dist
Closer(d, best_dist) == d < best_dist

\* The for loop of find_closest_site from the i-th site on.
RECURSIVE closest_loop(_, _, _, _, _)
closest_loop(lat_user, lon_user, catalog, i, best) ==
    IF i > Len(catalog) THEN best
    ELSE LET site == catalog[i]
             d    == haversine_km(lat_user, lon_user, site.lat, site.lon)
         IN  IF best.dist = NoneDist \/ Closer(d, best.dist)
             THEN closest_loop(lat_user, lon_user, catalog, i + 1,
                               [site |-> site, dist |-> d])
             ELSE closest_loop(lat_user, lon_user, catalog, i + 1, best)

find_closest_site(lat_user, lon_user, catalog) ==
    closest_loop(lat_user, lon_user, catalog, 1, [site |-> NoneSite, dist |-> NoneDist])

-----------------------------------------------------------------------------
(* Weather fetcher: request.                                               *)

OPEN_METEO_URL == "https://archive-api.open-meteo.com/v1/archive"

\* Reference coordinate of Prophet_1_0.py.
SAINT_BRIEUC_LAT == 48514
SAINT_BRIEUC_LON == -2765

\* Python's None (also what JSON null parses to).
NoneVal == "None"
\* A key that a JSON object does not have.
Absent == "absent"
\* No uncaught exception.
NoExc == "none"

\* params of fetch_daily_weather.
build_params(lat, lon, start_date_str, end_date_str) ==
    [ latitude   |-> lat,
      longitude  |-> lon,
      start_date |-> start_date_str,
      end_date   |-> end_date_str,
      daily      |-> <<"temperature_2m_max", "temperature_2m_min", "precipitation_sum">>,
      timezone   |-> "Europe/Paris" ]

\* A fetch that sends its request a second time.
requests_get_twice(params) ==
    << [url |-> OPEN_METEO_URL, params |-> params, timeout |-> 30],
       [url |-> OPEN_METEO_URL, params |-> params, timeout |-> 30] >>

\* r = requests.get(OPEN_METEO_URL, params=params, timeout=30): the requests the
\* call hands to the HTTP client.
requests_get(params) ==
    << [url |-> OPEN_METEO_URL, params |-> params, timeout |-> 30] >>

-----------------------------------------------------------------------------
(* Weather fetcher: response handling.                                     *)

\* Streamlit elements.
StWrite(text)          == [fn |-> "st.write",   text |-> text]
StWriteStatus(status)  == [fn |-> "st.write",   text |-> "DEBUG status_code", status |-> status]
StErrorHttp(status)    == [fn |-> "st.error",   text |-> "Erreur API Open-Meteo (HTTP)", status |-> status]
StError(text)          == [fn |-> "st.error",   text |-> text]
StWarning(text)        == [fn |-> "st.warning", text |-> text]

\* pd.DataFrame(): no row.
EmptyFrame == <<>>
\* The None returned in place of meta.
MetaNone == [kind |-> "None"]

\* A return of fetch_daily_weather, and an exception leaving it uncaught.
Returned(df, meta, out) == [raised |-> NoExc, df |-> df, meta |-> meta, ui |-> out]
Raised(e, out)          == [raised |-> e, df |-> EmptyFrame, meta |-> MetaNone, ui |-> out]

Columns == {"time", "temperature_2m_max", "temperature_2m_min", "precipitation_sum"}
ValueColumns == Columns \ {"time"}

\* The columns of pd.DataFrame(daily) and the lengths of their arrays.
frame_columns(daily) == {c \in Columns : daily[c].has}
frame_lengths(daily) == {Len(daily[c].v) : c \in frame_columns(daily)}
frame_rows(daily) ==
    IF frame_columns(daily) = {} THEN 0
    ELSE Len(daily[CHOOSE c \in frame_columns(daily) : TRUE].v)

\* data.get(key)
json_get(data, key) == IF data[key] = Absent THEN NoneVal ELSE data[key]

\* meta = {"lat_used": data.get("latitude"), ...}
build_meta(data) ==
    [ kind        |-> "dict",
      lat_used    |-> json_get(data, "latitude"),
      lon_used    |-> json_get(data, "longitude"),
      elevation_m |-> json_get(data, "elevation") ]

\* df[["date", "temp_max_C", "temp_min_C", "rain_mm"]] after the rename, the
\* date column being `dates`.
select_columns(daily, dates) ==
    [ i \in 1..Len(dates) |->
        [ date       |-> dates[i],
          temp_max_C |-> daily.temperature_2m_max.v[i],
          temp_min_C |-> daily.temperature_2m_min.v[i],
          rain_mm    |-> daily.precipitation_sum.v[i] ] ]

\* pd.to_datetime(df["time"], errors="coerce").dt.date
date_column(daily) == [ i \in 1..Len(daily.time.v) |-> to_datetime(daily.time.v[i]) ]

\* df["date"] = pd.NaT on a frame of n rows (Prophet_1_0.py).
nat_column(n) == [ i \in 1..n |-> NaT ]

\* A status test that accepts every 2xx status.
status_is_2xx(status_code) == status_code \in 200..299

\* The negation of `r.status_code != 200`.
status_ok(status_code) == status_code = 200

\* The return for a missing 'daily' with the meta built all the same.
no_daily_with_meta(data, out) ==
    Returned(EmptyFrame, IF data.kind = "object" THEN build_meta(data) ELSE MetaNone,
             out \o <<StWarning("Pas de champ 'daily' dans la reponse.")>>)

\* "daily" in data, data being a JSON object (a key of it), or a JSON array
\* or string (an element, a substring of it).
daily_in(data) ==
    IF data.kind = "object" THEN data.daily.has ELSE data.contains_daily

\* if "daily" not in data: st.warning(...); return pd.DataFrame(), None
no_daily(data, out) ==
    Returned(EmptyFrame, MetaNone, out \o <<StWarning("Pas de champ 'daily' dans la reponse.")>>)

\* The part of fetch_daily_weather that follows data = r.json(), data being a
\* JSON object with a 'daily' block (src/openmeteo.py).
normalize_openmeteo(data, out) ==
    LET daily == data.daily
    IN  IF Cardinality(frame_lengths(daily)) > 1
        THEN Raised("ValueError", out)           \* pd.DataFrame(daily)
        ELSE IF ~ daily.time.has
        THEN Raised("KeyError", out)             \* df["time"]
        ELSE IF \E c \in ValueColumns : ~ daily[c].has
        THEN Raised("KeyError", out)             \* df[[...]]
        ELSE Returned(select_columns(daily, date_column(daily)), build_meta(data), out)

\* The same part of src/Prophet_1_0.py, which has no meta and tolerates a
\* missing 'time' array.
normalize_prophet(data, out) ==
    LET daily == data.daily
    IN  IF Cardinality(frame_lengths(daily)) > 1
        THEN Raised("ValueError", out)
        ELSE IF \E c \in ValueColumns : ~ daily[c].has
        THEN Raised("KeyError", out)
        ELSE Returned(select_columns(daily,
                          IF daily.time.has THEN date_column(daily)
                          ELSE nat_column(frame_rows(daily))),
                      MetaNone, out)

\* fetch_daily_weather from the line after requests.get on, r being the
\* response and `which` the source file.
fetch_daily_weather(which, r) ==
    LET dbg == << StWriteStatus(r.status_code), StWrite("DEBUG URL appelee") >>
    IN  IF ~ status_ok(r.status_code)
        THEN Returned(EmptyFrame, MetaNone,
                      dbg \o << StErrorHttp(r.status_code), StWrite("Reponse brute") >>)
        ELSE IF r.body.kind = "text"             \* r.json() raises, caught
        THEN Returned(EmptyFrame, MetaNone,
                      dbg \o << StError("Reponse API illisible (pas du JSON)"),
                                StWrite("Reponse brute") >>)
        ELSE IF r.body.kind = "scalar"           \* "daily" not in <null, number, bool>
        THEN Raised("TypeError", dbg)
        ELSE IF ~ daily_in(r.body)
        THEN no_daily(r.body, dbg)
        ELSE IF r.body.kind = "sequence"         \* data["daily"] on an array, a string
        THEN Raised("TypeError", dbg)
        ELSE IF which = "openmeteo"
        THEN normalize_openmeteo(r.body, dbg)
        ELSE normalize_prophet(r.body, dbg)

-----------------------------------------------------------------------------
(* Explored inputs.                                                        *)

\* The days the two date inputs can be set to; the last one is today_utc, the
\* max_value of both.
FirstDay  == ToOrdinal(EpochYear, 2, 28)
Days      == FirstDay..(FirstDay + NumDays - 1)
today_utc == FirstDay + NumDays - 1

\* A text that pd.to_datetime cannot parse.
BadText == [y |-> EpochYear, m |-> 2, d |-> 30]

\* Date texts of the provider's 'time' array.
DateTexts == { strftime(FirstDay), strftime(FirstDay + 1), BadText }

\* The three values the provider gives for one day: max, min, rain.
RowValues == { <<"10.5", "5.0", "0.0">>, <<"12.0", "6.0", NoneVal>>,
               <<NoneVal, NoneVal, NoneVal>> }

\* The provider's echoed scalars: all three, none, the latitude alone.
Echoes == { [latitude |-> "48.5", longitude |-> "-2.75", elevation |-> "95.0"],
            [latitude |-> Absent, longitude |-> Absent, elevation |-> Absent],
            [latitude |-> "48.5", longitude |-> Absent, elevation |-> Absent] }

Column(v) == [has |-> TRUE, v |-> v]
NoColumn  == [has |-> FALSE, v |-> <<>>]

\* The 'daily' block with the dates `times` and the values `rows`, aligned.
Block(times, rows) ==
    [ has |-> TRUE,
      time               |-> Column(times),
      temperature_2m_max |-> Column([i \in 1..Len(rows) |-> rows[i][1]]),
      temperature_2m_min |-> Column([i \in 1..Len(rows) |-> rows[i][2]]),
      precipitation_sum  |-> Column([i \in 1..Len(rows) |-> rows[i][3]]) ]

NoDaily == [has |-> FALSE]

AlignedBlocks(n) ==
    UNION { { Block(t, r) : t \in [1..k -> DateTexts], r \in [1..k -> RowValues] }
            : k \in 0..n }

\* Blocks as the provider should send them, and the same with one array
\* missing or one array a value short.
Blocks(n) ==
    LET A == AlignedBlocks(n)
    IN  A \cup { [b EXCEPT ![c] = NoColumn] : b \in A, c \in Columns }
          \cup { [b EXCEPT ![c].v = SubSeq(@, 1, Len(@) - 1)] :
                     b \in {x \in A : Len(x.time.v) > 0}, c \in Columns }

JsonObject(echo, daily) ==
    [ kind |-> "object", latitude |-> echo.latitude, longitude |-> echo.longitude,
      elevation |-> echo.elevation, daily |-> daily ]

\* Response bodies: a text that is no JSON; a JSON null, number or boolean; a
\* JSON array or string, which holds "daily" (as an element, as a substring)
\* or not; and JSON objects with or without the 'daily' block.
Bodies(n) ==
    { [kind |-> "text"], [kind |-> "scalar"] } \cup
    { [kind |-> "sequence", contains_daily |-> c] : c \in BOOLEAN } \cup
    { JsonObject(e, d) : e \in Echoes, d \in {NoDaily} \cup Blocks(n) }

SampleBodies ==
    { [kind |-> "text"],
      JsonObject([latitude |-> Absent, longitude |-> Absent, elevation |-> Absent], NoDaily),
      JsonObject([latitude |-> "48.5", longitude |-> "-2.75", elevation |-> "95.0"],
                 Block(<<strftime(FirstDay)>>, << <<"10.5", "5.0", "0.0">> >>)) }

Statuses == {200, 201, 204, 404, 500}

Responses(n) ==
    { [status_code |-> 200, body |-> b] : b \in Bodies(n) } \cup
    { [status_code |-> s, body |-> b] : s \in Statuses \ {200}, b \in SampleBodies }

NoResponse == [status_code |-> 0, body |-> [kind |-> "none"]]

\* A row of a record set handed to check_missing_days_daily alone.
Row(date) == [date |-> date, temp_max_C |-> "10.5", temp_min_C |-> "5.0", rain_mm |-> "0.0"]

RecordSets(n) ==
    UNION { { [i \in 1..k |-> Row(d[i])] : d \in [1..k -> Days \cup {NaT}] } : k \in 0..n }

Catalogs(n) == UNION { [1..k -> CandidateSites] : k \in 1..n }

-----------------------------------------------------------------------------
(* The script run of src/openmeteo.py and of src/Prophet_1_0.py.           *)

\* Arguments that query the closest known site instead of the custom point.
closest_site_fetch_args ==
    [ lat |-> closest_site.lat, lon |-> closest_site.lon,
      start_date_str |-> strftime(start_date_input),
      end_date_str   |-> strftime(end_date_input) ]

\* fetch_daily_weather(lat=custom_lat, lon=custom_lon, start_date_str=start_str,
\*                     end_date_str=end_str)
main_fetch_args ==
    [ lat |-> custom_lat, lon |-> custom_lon,
      start_date_str |-> strftime(start_date_input),
      end_date_str   |-> strftime(end_date_input) ]

\* fetch_daily_weather(lat=SAINT_BRIEUC_LAT, lon=SAINT_BRIEUC_LON, ...)
prophet_fetch_args ==
    [ lat |-> SAINT_BRIEUC_LAT, lon |-> SAINT_BRIEUC_LON,
      start_date_str |-> strftime(start_date_input),
      end_date_str   |-> strftime(end_date_input) ]

\* df[column].notna().any()
notna_any(df, column) == \E i \in 1..Len(df) : df[i][column] # NoneVal

\* A test that takes no frame for empty.
frame_never_empty(df) == FALSE

\* daily_df.empty
frame_empty(df) == Len(df) = 0

\* The site the exported file is named after: the closest known site
\* (openmeteo.py), the fixed site (Prophet_1_0.py).
site_label == IF script = "openmeteo" THEN closest_site.name ELSE "saint-brieuc"

\* The state of a script run before the sidebar is read.
Fresh ==
    /\ run_query = FALSE
    /\ closest_site = NoneSite
    /\ closest_dist_km = NoneDist
    /\ http_log = <<>>
    /\ response = NoResponse
    /\ daily_df = EmptyFrame
    /\ meta_info = MetaNone
    /\ exc = NoExc
    /\ ui = <<>>
    /\ missing_days = <<>>
    /\ ok_all_days = FALSE

Init ==
    /\ pc = "sidebar"
    /\ script \in {"openmeteo", "Prophet_1_0"}
    /\ start_date_input = today_utc
    /\ end_date_input = today_utc
    /\ custom_lat = KNOWN_SITES[1].lat
    /\ custom_lon = KNOWN_SITES[1].lon
    /\ sites = KNOWN_SITES
    /\ Fresh

\* The sidebar: the two date inputs (end not before start, neither after
\* today), the reference site (left at its default, the first known site),
\* the custom point, find_closest_site on it, and the button.
Sidebar ==
    /\ pc = "sidebar"
    /\ script = "openmeteo"
    /\ \E s \in Days, e \in Days, p \in Points, pressed \in BOOLEAN :
         /\ s <= e
         /\ start_date_input' = s
         /\ end_date_input' = e
         /\ custom_lat' = p[1]
         /\ custom_lon' = p[2]
         /\ run_query' = pressed
         /\ LET best == find_closest_site(p[1], p[2], sites)
            IN  /\ closest_site' = best.site
                /\ closest_dist_km' = best.dist
                /\ ui' = ui \o << [fn |-> "st.sidebar.write", text |-> "Site de reference",
                                   site |-> KNOWN_SITES[1].name,
                                   lat |-> KNOWN_SITES[1].lat, lon |-> KNOWN_SITES[1].lon],
                                  [fn |-> "st.sidebar.markdown",
                                   text |-> "Ou bien precise un point personnalise :"],
                                  [fn |-> "st.sidebar.markdown",
                                   text |-> "Site connu le plus proche de ton point perso",
                                   site |-> best.site.name, km |-> best.dist] >>
    /\ pc' = "main"
    /\ UNCHANGED <<script, sites, http_log, response, daily_df, meta_info, exc,
                   missing_days, ok_all_days>>

\* The sidebar of Prophet_1_0.py: the fixed location, the two date inputs and
\* the button.
SidebarProphet ==
    /\ pc = "sidebar"
    /\ script = "Prophet_1_0"
    /\ \E s \in Days, e \in Days, pressed \in BOOLEAN :
         /\ s <= e
         /\ start_date_input' = s
         /\ end_date_input' = e
         /\ run_query' = pressed
    /\ ui' = ui \o << [fn |-> "st.sidebar.write",
                       text |-> "Localisation utilisee : Saint-Brieuc"],
                      [fn |-> "st.sidebar.write", text |-> "Latitude | Longitude",
                       lat |-> SAINT_BRIEUC_LAT, lon |-> SAINT_BRIEUC_LON] >>
    /\ pc' = "main"
    /\ UNCHANGED <<script, custom_lat, custom_lon, sites, closest_site, closest_dist_km,
                   http_log, response, daily_df, meta_info, exc, missing_days,
                   ok_all_days>>

\* else: st.info(...), and in Prophet_1_0.py st.write(...) after it.
NoQuery ==
    /\ pc = "main"
    /\ ~ run_query
    /\ ui' = ui \o << [fn |-> "st.info", text |-> "Choisis ta periode"] >>
               \o (IF script = "Prophet_1_0"
                   THEN << StWrite("Astuce : tu peux ensuite fusionner ce CSV/Excel avec ton CA journalier.") >>
                   ELSE << >>)
    /\ pc' = "done"
    /\ UNCHANGED <<script, start_date_input, end_date_input, custom_lat, custom_lon,
                   run_query, sites, closest_site, closest_dist_km, http_log, response,
                   daily_df, meta_info, exc, missing_days, ok_all_days>>

\* if run_query: the call of fetch_daily_weather up to requests.get.
HttpGet ==
    /\ pc = "main"
    /\ run_query
    /\ LET a == IF script = "openmeteo" THEN main_fetch_args ELSE prophet_fetch_args
       IN  http_log' = http_log \o
              requests_get(build_params(a.lat, a.lon, a.start_date_str, a.end_date_str))
    /\ pc' = "awaiting"
    /\ UNCHANGED <<script, start_date_input, end_date_input, custom_lat, custom_lon,
                   run_query, sites, closest_site, closest_dist_km, response, daily_df,
                   meta_info, exc, ui, missing_days, ok_all_days>>

\* The response arrives and fetch_daily_weather runs to its end.
HttpResponse(n) ==
    /\ pc = "awaiting"
    /\ \E r \in Responses(n) :
         LET res == fetch_daily_weather(script, r)
         IN  /\ response' = r
             /\ daily_df' = res.df
             /\ meta_info' = res.meta
             /\ exc' = res.raised
             /\ ui' = ui \o res.ui
             /\ pc' = IF res.raised = NoExc THEN "fetched" ELSE "raised"
    /\ UNCHANGED <<script, start_date_input, end_date_input, custom_lat, custom_lon,
                   run_query, sites, closest_site, closest_dist_km, http_log,
                   missing_days, ok_all_days>>

\* requests.get raises (timeout, connection error): nothing catches it.
HttpFailure ==
    /\ pc = "awaiting"
    /\ exc' = "RequestException"
    /\ pc' = "raised"
    /\ UNCHANGED <<script, start_date_input, end_date_input, custom_lat, custom_lon,
                   run_query, sites, closest_site, closest_dist_km, http_log, response,
                   daily_df, meta_info, ui, missing_days, ok_all_days>>

\* if daily_df.empty: st.warning(...)
NoData ==
    /\ pc = "fetched"
    /\ frame_empty(daily_df)
    /\ ui' = ui \o << StWarning("Aucune donnee retournee par Open-Meteo pour cet intervalle.") >>
    /\ pc' = "done"
    /\ UNCHANGED <<script, start_date_input, end_date_input, custom_lat, custom_lon,
                   run_query, sites, closest_site, closest_dist_km, http_log, response,
                   daily_df, meta_info, exc, missing_days, ok_all_days>>

\* else: the location block, the table and check_missing_days_daily.
ShowAndCheck ==
    /\ pc = "fetched"
    /\ ~ frame_empty(daily_df)
    /\ LET report == check_missing_days_daily(daily_df, start_date_input, end_date_input)
       IN  /\ missing_days' = report.missing
           /\ ok_all_days' = report.ok
           /\ ui' = ui
                \o (IF script = "openmeteo"
                    THEN << [fn |-> "st.metric", text |-> "Point choisi (lat)",
                             value |-> custom_lat],
                            [fn |-> "st.metric", text |-> "Point choisi (lon)",
                             value |-> custom_lon],
                            [fn |-> "st.write", text |-> "Site connu le plus proche",
                             site |-> closest_site.name, km |-> closest_dist_km] >>
                    ELSE << >>)
                \o (IF script = "openmeteo" /\ meta_info.kind = "dict"
                    THEN << [fn |-> "st.write", text |-> "Open-Meteo a repondu pour",
                             meta |-> meta_info] >>
                    ELSE << >>)
                \o << [fn |-> "st.dataframe", df |-> daily_df] >>
                \o (IF report.ok
                    THEN << [fn |-> "st.success",
                             text |-> "Toutes les dates entre debut et fin sont presentes."] >>
                    ELSE << [fn |-> "st.warning",
                             text |-> "Certaines dates n'ont pas de ligne meteo",
                             days |-> report.missing] >>)
    /\ pc' = "checked"
    /\ UNCHANGED <<script, start_date_input, end_date_input, custom_lat, custom_lon,
                   run_query, sites, closest_site, closest_dist_km, http_log, response,
                   daily_df, meta_info, exc>>

\* st.plotly_chart of the chart of column y: its title names the closest known
\* site in openmeteo.py and no site in Prophet_1_0.py.
StPlotlyChart(y) ==
    IF script = "openmeteo"
    THEN [fn |-> "st.plotly_chart", y |-> y, site |-> closest_site.name]
    ELSE [fn |-> "st.plotly_chart", y |-> y]

\* The two charts, each drawn when its column has a value (Prophet_1_0.py
\* shows a note in place of a chart it does not draw).
Charts ==
    /\ pc = "checked"
    /\ ui' = ui
         \o (IF notna_any(daily_df, "temp_max_C")
             THEN << StPlotlyChart("temp_max_C") >>
             ELSE IF script = "Prophet_1_0"
             THEN << [fn |-> "st.info", text |-> "Pas de temperature max exploitable."] >>
             ELSE << >>)
         \o (IF notna_any(daily_df, "rain_mm")
             THEN << StPlotlyChart("rain_mm") >>
             ELSE IF script = "Prophet_1_0"
             THEN << [fn |-> "st.info", text |-> "Pas de pluie mesuree sur la periode selectionnee."] >>
             ELSE << >>)
    /\ pc' = "charted"
    /\ UNCHANGED <<script, start_date_input, end_date_input, custom_lat, custom_lon,
                   run_query, sites, closest_site, closest_dist_km, http_log, response,
                   daily_df, meta_info, exc, missing_days, ok_all_days>>

\* to_excel_bytes(daily_df) and the download button.
Export ==
    /\ pc = "charted"
    /\ ui' = ui \o << [fn |-> "st.download_button", data |-> daily_df,
                       site |-> site_label,
                       start |-> strftime(start_date_input),
                       end |-> strftime(end_date_input)] >>
    /\ pc' = "done"
    /\ UNCHANGED <<script, start_date_input, end_date_input, custom_lat, custom_lon,
                   run_query, sites, closest_site, closest_dist_km, http_log, response,
                   daily_df, meta_info, exc, missing_days, ok_all_days>>

\* The next interaction runs the script again from the top.
Rerun ==
    /\ pc \in {"done", "raised"}
    /\ pc' = "sidebar"
    /\ run_query' = FALSE
    /\ closest_site' = NoneSite
    /\ closest_dist_km' = NoneDist
    /\ http_log' = <<>>
    /\ response' = NoResponse
    /\ daily_df' = EmptyFrame
    /\ meta_info' = MetaNone
    /\ exc' = NoExc
    /\ ui' = <<>>
    /\ missing_days' = <<>>
    /\ ok_all_days' = FALSE
    /\ UNCHANGED <<script, start_date_input, end_date_input, custom_lat, custom_lon, sites>>

Next ==
    \/ Sidebar
    \/ SidebarProphet
    \/ NoQuery
    \/ HttpGet
    \/ HttpResponse(MaxLenRun)
    \/ HttpFailure
    \/ NoData
    \/ ShowAndCheck
    \/ Charts
    \/ Export
    \/ Rerun

Spec == Init /\ [][Next]_vars

-----------------------------------------------------------------------------
(* fetch_daily_weather alone, of either source file, over wider responses. *)

InitFetch ==
    /\ pc = "main"
    /\ script \in {"openmeteo", "Prophet_1_0"}
    /\ start_date_input = FirstDay
    /\ end_date_input = today_utc
    /\ custom_lat = KNOWN_SITES[1].lat
    /\ custom_lon = KNOWN_SITES[1].lon
    /\ sites = KNOWN_SITES
    /\ run_query = TRUE
    /\ closest_site = KNOWN_SITES[1]
    /\ closest_dist_km = 0
    /\ http_log = <<>>
    /\ response = NoResponse
    /\ daily_df = EmptyFrame
    /\ meta_info = MetaNone
    /\ exc = NoExc
    /\ ui = <<>>
    /\ missing_days = <<>>
    /\ ok_all_days = FALSE

NextFetch ==
    \/ HttpGet
    \/ HttpResponse(MaxLen)
    \/ HttpFailure

SpecFetch == InitFetch /\ [][NextFetch]_vars

-----------------------------------------------------------------------------
(* check_missing_days_daily alone, over every record set and range.        *)

InitCheck ==
    /\ pc = "check"
    /\ script = "openmeteo"
    /\ start_date_input \in Days
    /\ end_date_input \in Days
    /\ start_date_input <= end_date_input
    /\ daily_df \in RecordSets(MaxRows)
    /\ custom_lat = KNOWN_SITES[1].lat
    /\ custom_lon = KNOWN_SITES[1].lon
    /\ sites = KNOWN_SITES
    /\ run_query = FALSE
    /\ closest_site = NoneSite
    /\ closest_dist_km = NoneDist
    /\ http_log = <<>>
    /\ response = NoResponse
    /\ meta_info = MetaNone
    /\ exc = NoExc
    /\ ui = <<>>
    /\ missing_days = <<>>
    /\ ok_all_days = FALSE

CheckCall ==
    /\ pc = "check"
    /\ LET report == check_missing_days_daily(daily_df, start_date_input, end_date_input)
       IN  /\ missing_days' = report.missing
           /\ ok_all_days' = report.ok
    /\ pc' = "check_done"
    /\ UNCHANGED <<script, start_date_input, end_date_input, custom_lat, custom_lon,
                   run_query, sites, closest_site, closest_dist_km, http_log, response,
                   daily_df, meta_info, exc, ui>>

NextCheck == CheckCall

SpecCheck == InitCheck /\ [][NextCheck]_vars

-----------------------------------------------------------------------------
(* find_closest_site alone, over every point and non-empty catalog.        *)

InitNearest ==
    /\ pc = "nearest"
    /\ script = "openmeteo"
    /\ start_date_input = today_utc
    /\ end_date_input = today_utc
    /\ \E p \in Points : custom_lat = p[1] /\ custom_lon = p[2]
    /\ sites \in Catalogs(MaxCatalog)
    /\ Fresh

NearestCall ==
    /\ pc = "nearest"
    /\ LET best == find_closest_site(custom_lat, custom_lon, sites)
       IN  /\ closest_site' = best.site
           /\ closest_dist_km' = best.dist
    /\ pc' = "nearest_done"
    /\ UNCHANGED <<script, start_date_input, end_date_input, custom_lat, custom_lon,
                   run_query, sites, http_log, response, daily_df, meta_info, exc, ui,
                   missing_days, ok_all_days>>

NextNearest == NearestCall

SpecNearest == InitNearest /\ [][NextNearest]_vars

-----------------------------------------------------------------------------
(* Properties of the completeness checker (SpecCheck).                     *)

RecordDates == { daily_df[j].date : j \in 1..Len(daily_df) }

\* C1: after check_missing_days_daily, for a range with start <= end, the
\* missing days are exactly the days of start..end that are the date of no
\* record, each listed once, in chronological order; a date outside the range
\* is never listed.
C1_MissingDaysExact ==
    pc = "check_done" =>
        /\ \A i \in 1..Len(missing_days) :
               /\ missing_days[i] \in start_date_input..end_date_input
               /\ missing_days[i] \notin RecordDates
        /\ \A d \in start_date_input..end_date_input :
               d \notin RecordDates => \E i \in 1..Len(missing_days) : missing_days[i] = d
        /\ \A i, j \in 1..Len(missing_days) : i < j => missing_days[i] < missing_days[j]

\* C1 witness: a two-day range, records dated after the range and undated, and
\* both days of the range reported in order.
C1_Witness ==
    /\ pc = "check_done"
    /\ start_date_input = FirstDay
    /\ end_date_input = FirstDay + 1
    /\ RecordDates = {FirstDay + 2, NaT}
    /\ missing_days = <<FirstDay, FirstDay + 1>>

\* C2: the report satisfies is_complete = (missing_dates is empty), and an
\* empty record set yields the whole day sequence start..end as missing and
\* is_complete = false.
C2_CompleteIffNothingMissing ==
    pc = "check_done" =>
        /\ ok_all_days <=> (missing_days = <<>>)
        /\ daily_df = <<>> =>
               /\ ~ ok_all_days
               /\ Len(missing_days) = end_date_input - start_date_input + 1
               /\ \A i \in 1..Len(missing_days) :
                      missing_days[i] = start_date_input + i - 1

\* C2 witness: the checker has run on the empty record set over several days.
C2_Witness ==
    /\ pc = "check_done"
    /\ daily_df = <<>>
    /\ end_date_input > start_date_input
    /\ Len(missing_days) > 1
    /\ ~ ok_all_days

-----------------------------------------------------------------------------
(* Properties of fetch_daily_weather (SpecFetch).                          *)

FetchEnded == pc \in {"fetched", "raised"} /\ response # NoResponse

\* The outcome the code gives for a failed status: the error element carrying
\* the status code, and the empty frame with no meta.
UpstreamErrorOutcome ==
    /\ pc = "fetched"
    /\ \E i \in 1..Len(ui) : ui[i] = StErrorHttp(response.status_code)
    /\ daily_df = EmptyFrame
    /\ meta_info = MetaNone

\* C3 as stated: the fetch ends in the upstream-error outcome exactly when the
\* status is no 2xx status; every 2xx response proceeds to body parsing.
C3_Every2xxIsParsed ==
    FetchEnded => (UpstreamErrorOutcome <=> response.status_code \notin 200..299)

\* What the code does where C3 fails: the fetch ends in the upstream-error
\* outcome, carrying the status code, exactly when the status is not 200, so
\* that a 2xx status other than 200 is never parsed.
C3_Only200IsParsed ==
    FetchEnded => (UpstreamErrorOutcome <=> response.status_code # 200)

\* The failing case of C3: a 201 response with a well-formed body ended in the
\* upstream-error outcome.
C3_Witness ==
    /\ UpstreamErrorOutcome
    /\ response.status_code = 201
    /\ response.body.kind = "object"
    /\ response.body.daily.has

ProtocolFailure(r) ==
    \/ r.status_code \notin 200..299
    \/ r.status_code = 200 /\ r.body.kind = "text"

DataEmpty(r) ==
    /\ r.status_code = 200
    /\ r.body.kind = "object"
    /\ ~ r.body.daily.has

\* The pair fetch_daily_weather returns to its caller.
ReturnValue(res) == <<res.df, res.meta>>

\* C4 as stated: what the fetch returns for a protocol-level failure differs
\* from what it returns for a parsed response without per-day block, so that
\* the caller can tell the two apart from the returned value.
C4_FailureDistinctFromNoData ==
    (pc = "fetched" /\ ProtocolFailure(response)) =>
        \A b \in SampleBodies :
            LET r == [status_code |-> 200, body |-> b]
            IN  DataEmpty(r) =>
                    ReturnValue(fetch_daily_weather(script, r)) # <<daily_df, meta_info>>

\* C5: a 200 response whose body is a JSON object without the per-day block
\* ends in a return of the empty frame with no meta, and in no exception,
\* whatever else the object holds.
C5_NoDailyBlockIsEmptyResult ==
    (FetchEnded /\ DataEmpty(response)) =>
        /\ pc = "fetched"
        /\ exc = NoExc
        /\ daily_df = EmptyFrame
        /\ meta_info = MetaNone

\* C5 witness: such a response, with the three echoed scalars in it, was
\* handled.
C5_Witness ==
    /\ pc = "fetched"
    /\ DataEmpty(response)
    /\ response.body.latitude # Absent
    /\ response.body.longitude # Absent
    /\ response.body.elevation # Absent
    /\ daily_df = EmptyFrame

\* C6 as stated: every returned record has a defined date (an index whose date
\* text fails to parse is left out), and every returned record carries the
\* values of the index its date comes from.
C6_EveryRecordDated ==
    pc = "fetched" =>
        \A i \in 1..Len(daily_df) :
            /\ daily_df[i].date # NaT
            /\ \E k \in 1..Len(response.body.daily.time.v) :
                   /\ to_datetime(response.body.daily.time.v[k]) = daily_df[i].date
                   /\ response.body.daily.temperature_2m_max.v[k] = daily_df[i].temp_max_C
                   /\ response.body.daily.temperature_2m_min.v[k] = daily_df[i].temp_min_C
                   /\ response.body.daily.precipitation_sum.v[k] = daily_df[i].rain_mm

EchoedAll(data) ==
    data.latitude # Absent /\ data.longitude # Absent /\ data.elevation # Absent

\* C10 as stated: the meta of a returned result is populated when the response
\* has the echoed latitude, longitude and elevation, and absent otherwise.
C10_MetaAbsentWithoutEcho ==
    (pc = "fetched" /\ script = "openmeteo" /\ response.status_code = 200
        /\ response.body.kind = "object" /\ response.body.daily.has) =>
        IF EchoedAll(response.body)
        THEN meta_info = [ kind |-> "dict", lat_used |-> response.body.latitude,
                           lon_used |-> response.body.longitude,
                           elevation_m |-> response.body.elevation ]
        ELSE meta_info = MetaNone

-----------------------------------------------------------------------------
(* Properties of find_closest_site (SpecNearest).                          *)

SiteDistance(j) == haversine_km(custom_lat, custom_lon, sites[j].lat, sites[j].lon)

\* C7: for a non-empty catalog find_closest_site returns an entry of the
\* catalog at the minimum distance to the point, with that distance, and of
\* the entries at the minimum distance the first in catalog order.
C7_NearestIsFirstMinimum ==
    pc = "nearest_done" =>
        \E i \in 1..Len(sites) :
            /\ closest_site = sites[i]
            /\ closest_dist_km = SiteDistance(i)
            /\ \A j \in 1..Len(sites) : SiteDistance(j) >= SiteDistance(i)
            /\ \A j \in 1..(i - 1) : SiteDistance(j) > SiteDistance(i)

\* C7 witness: two different sites of the catalog are both at the minimum
\* distance, after a farther first entry, and the earlier of the two came back.
C7_Witness ==
    /\ pc = "nearest_done"
    /\ Len(sites) = 3
    /\ SiteDistance(1) > SiteDistance(2)
    /\ SiteDistance(2) = SiteDistance(3)
    /\ sites[2] # sites[3]
    /\ closest_site = sites[2]
    /\ closest_dist_km = SiteDistance(2)

-----------------------------------------------------------------------------
(* Properties of the script run (Spec).                                    *)

\* C8: every request handed to the HTTP client carries the latitude and the
\* longitude the user set; the closest known site only labels the output.
C8_QueriesTheRequestedPoint ==
    \A i \in 1..Len(http_log) :
        /\ http_log[i].params.latitude = custom_lat
        /\ http_log[i].params.longitude = custom_lon

\* C8 witness: a query ran to its end for a point that is not the closest
\* known site.
C8_Witness ==
    /\ pc = "done"
    /\ Len(http_log) = 1
    /\ closest_site # NoneSite
    /\ closest_site.lat # custom_lat
    /\ closest_site.lon # custom_lon
    /\ http_log[1].params.latitude = custom_lat

\* C9: a script run in which the button was pressed hands exactly one request
\* to the HTTP client, whatever the response (or the failure of the call), and
\* a run without the button none.
C9_ExactlyOneRequest ==
    /\ pc \in {"awaiting", "fetched", "raised", "checked", "charted"} => Len(http_log) = 1
    /\ pc = "done" => Len(http_log) = (IF run_query THEN 1 ELSE 0)
    /\ pc \in {"sidebar", "main"} => Len(http_log) = 0

\* C9 witness: a query that got a failed status ended with one request made.
C9_Witness ==
    /\ pc = "done"
    /\ run_query
    /\ response.status_code = 500
    /\ Len(http_log) = 1

-----------------------------------------------------------------------------
(* Outcomes of fetch_daily_weather (SpecFetch).                            *)

\* The outcome the code gives for a body it cannot read: the error element of
\* the except branch, and the empty frame with no meta.
MalformedResponseOutcome ==
    /\ pc = "fetched"
    /\ \E i \in 1..Len(ui) : ui[i] = StError("Reponse API illisible (pas du JSON)")
    /\ daily_df = EmptyFrame
    /\ meta_info = MetaNone

\* A result handed back with no error element shown.
WeatherResultOutcome ==
    /\ pc = "fetched"
    /\ \A i \in 1..Len(ui) : ui[i].fn # "st.error"

\* A success-status response whose body is not the expected structure: no
\* JSON, a JSON value that is no object (null, a number, a boolean, an array,
\* a string), or a per-day block that lacks the
\* date array or one of the three value arrays, or whose arrays differ in
\* length.
Uninterpretable(r) ==
    /\ r.status_code = 200
    /\ \/ r.body.kind \in {"text", "scalar", "sequence"}
       \/ /\ r.body.kind = "object"
          /\ r.body.daily.has
          /\ \/ \E c \in Columns : ~ r.body.daily[c].has
             \/ Cardinality(frame_lengths(r.body.daily)) > 1

\* C11 as stated: a fetch that got a response ends in exactly one of the three
\* outcomes (a result, the upstream error, the malformed-response error), and
\* a success-status response with an uninterpretable body ends in the
\* malformed-response outcome with no result, never in another failure.
C11_MalformedBodyIsMalformedResponse ==
    FetchEnded =>
        /\ Cardinality({ o \in {"result", "upstream", "malformed"} :
                            \/ o = "result"    /\ WeatherResultOutcome
                            \/ o = "upstream"  /\ UpstreamErrorOutcome
                            \/ o = "malformed" /\ MalformedResponseOutcome }) = 1
        /\ Uninterpretable(response) => MalformedResponseOutcome

-----------------------------------------------------------------------------
(* Order of the steps of a query (Spec).                                   *)

\* The elements by which each step shows in the page.
IsFetchElement(e)  == e.fn = "st.write" /\ e.text = "DEBUG status_code"
IsCheckElement(e)  ==
    \/ e.fn = "st.success"
    \/ e.fn = "st.warning" /\ e.text = "Certaines dates n'ont pas de ligne meteo"
IsChartElement(e)  == e.fn = "st.plotly_chart"
IsExportElement(e) == e.fn = "st.download_button"
IsNoDataElement(e) ==
    e = StWarning("Aucune donnee retournee par Open-Meteo pour cet intervalle.")

\* C12: in a query the completeness check comes after the return of the fetch,
\* the charts and the export after the check, the export after the charts; a
\* fetch that returned zero records ends the query with the no-data warning
\* and with no completeness check, no chart and no export.
C12_FetchThenCheckThenPresent ==
    /\ \A i \in 1..Len(ui) :
           IsCheckElement(ui[i]) =>
               /\ pc \in {"checked", "charted", "done"}
               /\ response # NoResponse
               /\ exc = NoExc
               /\ Len(daily_df) > 0
               /\ \E k \in 1..(i - 1) : IsFetchElement(ui[k])
    /\ \A i \in 1..Len(ui) :
           (IsChartElement(ui[i]) \/ IsExportElement(ui[i])) =>
               \E j \in 1..(i - 1) : IsCheckElement(ui[j])
    /\ \A i, j \in 1..Len(ui) :
           (IsChartElement(ui[i]) /\ IsExportElement(ui[j])) => i < j
    /\ Len(daily_df) = 0 =>
           /\ missing_days = <<>>
           /\ \A i \in 1..Len(ui) :
                  ~ (IsCheckElement(ui[i]) \/ IsChartElement(ui[i]) \/ IsExportElement(ui[i]))
    /\ (pc = "done" /\ run_query) =>
           IF Len(daily_df) = 0
           THEN IsNoDataElement(ui[Len(ui)])
           ELSE /\ \E i \in 1..Len(ui) : IsCheckElement(ui[i])
                /\ IsExportElement(ui[Len(ui)])

\* C12 witness: a query whose fetch parsed a 200 response holding zero records
\* ended on the no-data warning.
C12_Witness ==
    /\ pc = "done"
    /\ run_query
    /\ response.status_code = 200
    /\ response.body.kind = "object"
    /\ Len(daily_df) = 0
    /\ IsNoDataElement(ui[Len(ui)])

=============================================================================
